---- MODULE Spec2Model ----
(***************************************************************************)
(* A model of src/socket/tcp.rs: the TCP stream ring buffer (SocketBuffer) *)
(* and the TCP server socket (Listener) with its backlog of Incoming       *)
(* connection descriptions.                                                *)
(***************************************************************************)
EXTENDS Integers, Sequences, FiniteSets, TLC

VARIABLES
    buffer,     \* SocketBuffer: [storage, read_at, length]
    bret,       \* the last SocketBuffer call, the slice it returned, and whether
                \* it asked for what the call before it had left unserved
    written,    \* every octet written through slices returned by enqueue, in order
    readout,    \* every octet of the slices returned by dequeue, in order
    test_pc,    \* position inside test_buffer
    listener,   \* Listener: [endpoint, backlog, accept_at, length]
    lret,       \* the last Listener call, its arguments, what it returned, and
                \* whether the call before it was an accept that took a record
    collected,  \* the Incoming records stored by collect calls that returned Ok
    accepted    \* the Incoming records returned by accept calls

vars == <<buffer, bret, written, readout, test_pc, listener, lret, collected, accepted>>

bufvars == <<buffer, bret, written, readout, test_pc>>
lisvars == <<listener, lret, collected, accepted>>

----------------------------------------------------------------------------
(* Bounds of the model.                                                    *)

MaxCap == 3          \* storage lengths 1..MaxCap
MaxSize == 4         \* requested sizes 0..MaxSize
MaxWritten == 6      \* octets written through enqueue over a behaviour
MaxBacklog == 2      \* backlog lengths 1..MaxBacklog
MaxCollected == 3    \* collect calls returning Ok over a behaviour

Octets == {0, 1}

\* Option<T>: None is the empty sequence, Some(v) the sequence <<v>>.
None == <<>>
Some(v) == <<v>>

SeqsOfLen(S, n) == [1..n -> S]

----------------------------------------------------------------------------
(* SocketBuffer                                                            *)

\* storage.len()
StorageLen(storage) == Cardinality(DOMAIN storage)

\* SocketBuffer::new: read_at and length start at zero, the storage is the
\* caller's.
SocketBufferNew(storage) ==
    [storage |-> storage, read_at |-> 0, length |-> 0]

\* let write_at = (self.read_at + self.length) % self.storage.len();
WriteAt(buf) == (buf.read_at + buf.length) % StorageLen(buf.storage)

EnqueueSizeNoUntilEnd(buf, requested) ==
    LET free == StorageLen(buf.storage) - buf.length
    IN  IF requested > free THEN free ELSE requested

EnqueueSizeNoFree(buf, requested) ==
    LET until_end == StorageLen(buf.storage) - WriteAt(buf)
    IN  IF requested > until_end THEN until_end ELSE requested

\* The size enqueue settles on: the request clamped to the free space, then
\* to the space up to the end of the storage.
EnqueueSize(buf, requested) ==
    LET free      == StorageLen(buf.storage) - buf.length
        size1     == IF requested > free THEN free ELSE requested
        until_end == StorageLen(buf.storage) - WriteAt(buf)
    IN  IF size1 > until_end THEN until_end ELSE size1

DequeueSizeNoLength(buf, requested) ==
    LET until_end == StorageLen(buf.storage) - buf.read_at
    IN  IF requested > until_end THEN until_end ELSE requested

\* The size dequeue settles on: the request clamped to the queued length,
\* then to the space up to the end of the storage.
DequeueSize(buf, requested) ==
    LET size1     == IF requested > buf.length THEN buf.length ELSE requested
        until_end == StorageLen(buf.storage) - buf.read_at
    IN  IF size1 > until_end THEN until_end ELSE size1

\* storage[at .. at + size] as a sequence of octets
Slice(storage, at, size) == [i \in 1..size |-> storage[at + i - 1]]

\* The storage after the caller has filled the slice at [at, at + size) with
\* data.
Fill(storage, at, size, data) ==
    [i \in DOMAIN storage |->
        IF at <= i /\ i < at + size THEN data[i - at + 1] ELSE storage[i]]

DequeueReadAtNoAdvance(buf, size) == buf.read_at

DequeueReadAtNoWrap(buf, size) == buf.read_at + size

\* self.read_at = (self.read_at + size) % self.storage.len();
DequeueReadAt(buf, size) == (buf.read_at + size) % StorageLen(buf.storage)

\* enqueue(requested), and the caller filling the whole returned slice with
\* data before the next call (the slice borrows the buffer mutably).
Enqueue(requested, data) ==
    LET write_at == WriteAt(buffer)
        size     == EnqueueSize(buffer, requested)
    IN  /\ Len(data) = size
        /\ buffer' = [buffer EXCEPT
                        !.length  = buffer.length + size,
                        !.storage = Fill(buffer.storage, write_at, size, data)]
        /\ bret' = [op |-> "enqueue", requested |-> requested,
                    at |-> write_at, size |-> size, slice |-> data,
                    resumes |-> /\ bret.op = "enqueue"
                                /\ bret.size < bret.requested
                                /\ requested = bret.requested - bret.size]
        /\ written' = written \o data
        /\ UNCHANGED readout

\* dequeue(requested)
Dequeue(requested) ==
    LET read_at == buffer.read_at
        size    == DequeueSize(buffer, requested)
        slice   == Slice(buffer.storage, read_at, size)
    IN  /\ buffer' = [buffer EXCEPT
                        !.read_at = DequeueReadAt(buffer, size),
                        !.length  = buffer.length - size]
        /\ bret' = [op |-> "dequeue", requested |-> requested,
                    at |-> read_at, size |-> size, slice |-> slice,
                    resumes |-> /\ bret.op = "dequeue"
                                /\ bret.size < bret.requested
                                /\ requested = bret.requested - bret.size]
        /\ readout' = readout \o slice
        /\ UNCHANGED written

NoCall ==
    [op |-> "new", requested |-> 0, at |-> 0, size |-> 0, slice |-> <<>>,
     resumes |-> FALSE]

\* The octets the buffer holds, oldest first: length octets from read_at,
\* wrapping at the end of the storage.
Held(buf) ==
    [i \in 1..buf.length |->
        buf.storage[(buf.read_at + i - 1) % StorageLen(buf.storage)]]

----------------------------------------------------------------------------
(* Listener                                                                *)

\* wire::IpAddress: 0 is the unspecified address.
Unspecified == 0
IsUnspecified(addr) == addr = Unspecified

\* The addresses a Listener is bound to, and the destination and source
\* addresses of the datagrams it is handed.
BoundAddresses == {Unspecified, 1}
DstAddresses == {1, 2}
SrcAddresses == {3}

Ports == {1, 2}
SrcPorts == {5}
SeqNumbers == {0, 1}
AckNumbers == {0}
Protocols == {"Tcp", "Udp"}
Controls == {"None", "Syn", "Rst"}

\* wire::IpEndpoint::new
IpEndpointNew(addr, port) == [addr |-> addr, port |-> port]

\* wire::TcpRepr: the decoded fields of a segment.
TcpReprs ==
    [src_port : SrcPorts, dst_port : Ports, control : Controls,
     seq_number : SeqNumbers, ack_number : {None} \cup {Some(a) : a \in AckNumbers}]

\* The octets of a datagram's payload, as what the decoder makes of them: a
\* payload either decodes to a TcpRepr or is malformed.
MalformedPayload == [wellformed |-> FALSE, fields |-> None]
Payloads ==
    {MalformedPayload} \cup {[wellformed |-> TRUE, fields |-> Some(r)] : r \in TcpReprs}

\* TcpPacket::new followed by TcpRepr::parse: Err for a malformed payload,
\* the decoded representation otherwise.
TcpParse(payload) ==
    IF payload.wellformed
    THEN [ok |-> TRUE, repr |-> payload.fields[1]]
    ELSE [ok |-> FALSE, repr |-> None]

\* backlog.len()
BacklogLen(backlog) == Cardinality(DOMAIN backlog)

\* Listener::new: accept_at and length start at zero, the backlog is the
\* caller's.
ListenerNew(endpoint, backlog) ==
    [endpoint |-> endpoint, backlog |-> backlog, accept_at |-> 0, length |-> 0]

\* if repr.dst_port != self.endpoint.port { return Err(Error::Rejected) }
PortMatches(l, repr) == repr.dst_port = l.endpoint.port

AddrMatchesExactly(l, dst_addr) == l.endpoint.addr = dst_addr

\* if !self.endpoint.addr.is_unspecified() {
\*     if self.endpoint.addr != *dst_addr { return Err(Error::Rejected) } }
AddrMatches(l, dst_addr) ==
    IsUnspecified(l.endpoint.addr) \/ l.endpoint.addr = dst_addr

IsAnySyn(repr) == repr.control = "Syn"

\* match (repr.control, repr.ack_number) { (TcpControl::Syn, None) => ...
IsBareSyn(repr) == repr.control = "Syn" /\ repr.ack_number = None

BacklogFullLate(l) == l.length > BacklogLen(l.backlog)

\* if self.length == self.backlog.len() { return Err(Error::Exhausted) }
BacklogFull(l) == l.length = BacklogLen(l.backlog)

\* let inject_at = (self.accept_at + self.length) % self.backlog.len();
InjectAt(l) == (l.accept_at + l.length) % BacklogLen(l.backlog)

IncomingOfSwapped(src_addr, dst_addr, repr) ==
    [local_end  |-> IpEndpointNew(src_addr, repr.src_port),
     remote_end |-> IpEndpointNew(dst_addr, repr.dst_port),
     seq_number |-> repr.seq_number]

\* The Incoming built by collect.
IncomingOf(src_addr, dst_addr, repr) ==
    [local_end  |-> IpEndpointNew(dst_addr, repr.dst_port),
     remote_end |-> IpEndpointNew(src_addr, repr.src_port),
     seq_number |-> repr.seq_number]

CollectResultDedup(l, src_addr, dst_addr, protocol, payload) ==
    IF protocol # "Tcp" THEN "Rejected"
    ELSE LET parsed == TcpParse(payload) IN
         IF ~parsed.ok THEN "Malformed"
         ELSE IF ~PortMatches(l, parsed.repr) THEN "Rejected"
         ELSE IF ~AddrMatches(l, dst_addr) THEN "Rejected"
         ELSE IF IsBareSyn(parsed.repr)
              THEN IF BacklogFull(l) THEN "Exhausted"
                   ELSE IF BacklogLen(l.backlog) = 0 THEN "Panic"
                   ELSE IF l.backlog[InjectAt(l)] # None THEN "Panic"
                   ELSE IF \E i \in DOMAIN l.backlog :
                             /\ l.backlog[i] # None
                             /\ l.backlog[i][1].remote_end =
                                  IpEndpointNew(src_addr, parsed.repr.src_port)
                        THEN "Rejected"
                   ELSE "Ok"
              ELSE "Rejected"

CollectResultFullFirst(l, src_addr, dst_addr, protocol, payload) ==
    IF protocol # "Tcp" THEN "Rejected"
    ELSE LET parsed == TcpParse(payload) IN
         IF ~parsed.ok THEN "Malformed"
         ELSE IF BacklogFull(l) THEN "Exhausted"
         ELSE IF ~PortMatches(l, parsed.repr) THEN "Rejected"
         ELSE IF ~AddrMatches(l, dst_addr) THEN "Rejected"
         ELSE IF IsBareSyn(parsed.repr)
              THEN IF l.backlog[InjectAt(l)] # None THEN "Panic" ELSE "Ok"
              ELSE "Rejected"

\* What collect returns.  "Panic" is the failure of
\* assert!(self.backlog[inject_at].is_none()), or of the remainder by
\* self.backlog.len() when that is zero.
CollectResult(l, src_addr, dst_addr, protocol, payload) ==
    IF protocol # "Tcp" THEN "Rejected"
    ELSE LET parsed == TcpParse(payload) IN
         IF ~parsed.ok THEN "Malformed"
         ELSE IF ~PortMatches(l, parsed.repr) THEN "Rejected"
         ELSE IF ~AddrMatches(l, dst_addr) THEN "Rejected"
         ELSE IF IsBareSyn(parsed.repr)
              THEN IF BacklogFull(l) THEN "Exhausted"
                   ELSE IF BacklogLen(l.backlog) = 0 THEN "Panic"
                   ELSE IF l.backlog[InjectAt(l)] # None THEN "Panic"
                   ELSE "Ok"
              ELSE "Rejected"

CollectListenerCountFirst(l, src_addr, dst_addr, protocol, payload) ==
    LET result == CollectResult(l, src_addr, dst_addr, protocol, payload) IN
    IF result = "Ok"
    THEN [l EXCEPT
            !.length = l.length + 1,
            !.backlog[InjectAt(l)] =
                Some(IncomingOf(src_addr, dst_addr, TcpParse(payload).repr))]
    ELSE IF result = "Exhausted" \/ (result = "Panic" /\ BacklogLen(l.backlog) # 0)
    THEN [l EXCEPT !.length = l.length + 1]
    ELSE l

CollectListenerStoreFirst(l, src_addr, dst_addr, protocol, payload) ==
    LET result == CollectResult(l, src_addr, dst_addr, protocol, payload) IN
    IF result \in {"Ok", "Exhausted"} /\ BacklogLen(l.backlog) # 0
    THEN [l EXCEPT
            !.length = IF result = "Ok" THEN l.length + 1 ELSE l.length,
            !.backlog[InjectAt(l)] =
                Some(IncomingOf(src_addr, dst_addr, TcpParse(payload).repr))]
    ELSE IF result = "Panic" /\ BacklogLen(l.backlog) # 0
    THEN [l EXCEPT !.length = l.length + 1]
    ELSE l

\* The Listener after collect: untouched on an early return, length
\* incremented when the assertion fails, the slot filled as well on Ok.
CollectListener(l, src_addr, dst_addr, protocol, payload) ==
    LET result == CollectResult(l, src_addr, dst_addr, protocol, payload) IN
    IF result = "Ok"
    THEN [l EXCEPT
            !.length = l.length + 1,
            !.backlog[InjectAt(l)] =
                Some(IncomingOf(src_addr, dst_addr, TcpParse(payload).repr))]
    ELSE IF result = "Panic" /\ BacklogLen(l.backlog) # 0
    THEN [l EXCEPT !.length = l.length + 1]
    ELSE l

\* collect(src_addr, dst_addr, protocol, payload)
Collect(src_addr, dst_addr, protocol, payload) ==
    LET result == CollectResult(listener, src_addr, dst_addr, protocol, payload)
        after  == CollectListener(listener, src_addr, dst_addr, protocol, payload)
    IN  /\ listener' = after
        /\ lret' = [op |-> "collect", result |-> result, value |-> None,
                    after_take |-> lret.op = "accept" /\ lret.result = "Some",
                    args |-> Some([src_addr |-> src_addr, dst_addr |-> dst_addr,
                                   protocol |-> protocol, payload |-> payload])]
        /\ collected' = IF result = "Ok"
                        THEN Append(collected, after.backlog[InjectAt(listener)][1])
                        ELSE collected
        /\ UNCHANGED accepted

AcceptAtStay(l) == l.accept_at

\* self.accept_at = (self.accept_at + 1) % self.backlog.len();
AcceptAtNext(l) == (l.accept_at + 1) % BacklogLen(l.backlog)

AcceptSlotLast(l) == (l.accept_at + l.length - 1) % BacklogLen(l.backlog)

\* let accept_at = self.accept_at; ... self.backlog[accept_at].take()
AcceptSlot(l) == l.accept_at

AcceptUnguarded ==
    IF BacklogLen(listener.backlog) = 0
    THEN /\ lret' = [op |-> "accept", result |-> "Panic", value |-> None,
                     after_take |-> FALSE, args |-> None]
         /\ UNCHANGED <<listener, collected, accepted>>
    ELSE
    LET taken == listener.backlog[AcceptSlot(listener)] IN
    /\ listener' = [listener EXCEPT
                       !.accept_at = AcceptAtNext(listener),
                       !.length    = listener.length - 1,
                       !.backlog[AcceptSlot(listener)] = None]
    /\ lret' = [op |-> "accept",
                result |-> IF taken = None THEN "None" ELSE "Some",
                value |-> taken,
                after_take |-> lret.op = "accept" /\ lret.result = "Some", args |-> None]
    /\ accepted' = accepted \o taken
    /\ UNCHANGED collected

\* accept()
Accept ==
    IF listener.length = 0
    THEN /\ lret' = [op |-> "accept", result |-> "None", value |-> None,
                     after_take |-> lret.op = "accept" /\ lret.result = "Some", args |-> None]
         /\ UNCHANGED <<listener, collected, accepted>>
    ELSE LET taken == listener.backlog[AcceptSlot(listener)] IN
         /\ listener' = [listener EXCEPT
                            !.accept_at = AcceptAtNext(listener),
                            !.length    = listener.length - 1,
                            !.backlog[AcceptSlot(listener)] = None]
         /\ lret' = [op |-> "accept",
                     result |-> IF taken = None THEN "None" ELSE "Some",
                     value |-> taken,
                     after_take |-> lret.op = "accept" /\ lret.result = "Some", args |-> None]
         /\ accepted' = accepted \o taken
         /\ UNCHANGED collected

IdleListener == ListenerNew(IpEndpointNew(0, 0), <<>>)

NoListenerCall ==
    [op |-> "new", result |-> "None", value |-> None,
     after_take |-> FALSE, args |-> None]

----------------------------------------------------------------------------
(* Specification of a SocketBuffer under arbitrary enqueue and dequeue     *)
(* calls.                                                                  *)

InitBuffer ==
    /\ \E cap \in 1..MaxCap :
         \E storage \in [0..(cap - 1) -> Octets] :
            buffer = SocketBufferNew(storage)
    /\ bret = NoCall
    /\ written = <<>>
    /\ readout = <<>>
    /\ test_pc = 0
    /\ listener = IdleListener
    /\ lret = NoListenerCall
    /\ collected = <<>>
    /\ accepted = <<>>

EnqueueCall ==
    /\ \E requested \in 0..MaxSize :
         \E data \in SeqsOfLen(Octets, EnqueueSize(buffer, requested)) :
            /\ Len(written) + Len(data) <= MaxWritten
            /\ Enqueue(requested, data)
    /\ UNCHANGED <<test_pc, lisvars>>

DequeueCall ==
    /\ \E requested \in 0..MaxSize : Dequeue(requested)
    /\ UNCHANGED <<test_pc, lisvars>>

NextBuffer == EnqueueCall \/ DequeueCall

SpecBuffer == InitBuffer /\ [][NextBuffer]_vars

----------------------------------------------------------------------------
(* Specification of a SocketBuffer over a storage of any length, zero      *)
(* included, with the panics of enqueue and dequeue.  A panic ends the     *)
(* behaviour.                                                              *)

\* enqueue panics when the remainder by storage.len() divides by zero, or
\* when write_at..write_at + size is out of range for the storage.
EnqueueFaults(buf, requested) ==
    \/ StorageLen(buf.storage) = 0
    \/ WriteAt(buf) + EnqueueSize(buf, requested) > StorageLen(buf.storage)

\* dequeue panics when the remainder by storage.len() divides by zero, or
\* when read_at..read_at + size is out of range for the storage.
DequeueFaults(buf, requested) ==
    \/ StorageLen(buf.storage) = 0
    \/ buf.read_at + DequeueSize(buf, requested) > StorageLen(buf.storage)

Panic(requested) ==
    [op |-> "panic", requested |-> requested, at |-> 0, size |-> 0, slice |-> <<>>,
     resumes |-> FALSE]

InitAnyBuffer ==
    /\ \E cap \in 0..MaxCap :
         \E storage \in [0..(cap - 1) -> Octets] :
            buffer = SocketBufferNew(storage)
    /\ bret = NoCall
    /\ written = <<>>
    /\ readout = <<>>
    /\ test_pc = 0
    /\ listener = IdleListener
    /\ lret = NoListenerCall
    /\ collected = <<>>
    /\ accepted = <<>>

EnqueueAnyCall ==
    /\ bret.op # "panic"
    /\ \E requested \in 0..MaxSize :
         IF EnqueueFaults(buffer, requested)
         THEN /\ bret' = Panic(requested)
              /\ UNCHANGED <<buffer, written, readout>>
         ELSE \E data \in SeqsOfLen(Octets, EnqueueSize(buffer, requested)) :
                /\ Len(written) + Len(data) <= MaxWritten
                /\ Enqueue(requested, data)
    /\ UNCHANGED <<test_pc, lisvars>>

DequeueAnyCall ==
    /\ bret.op # "panic"
    /\ \E requested \in 0..MaxSize :
         IF DequeueFaults(buffer, requested)
         THEN /\ bret' = Panic(requested)
              /\ UNCHANGED <<buffer, written, readout>>
         ELSE Dequeue(requested)
    /\ UNCHANGED <<test_pc, lisvars>>

NextAnyBuffer == EnqueueAnyCall \/ DequeueAnyCall

SpecAnyBuffer == InitAnyBuffer /\ [][NextAnyBuffer]_vars

----------------------------------------------------------------------------
(* Specification of a Listener under arbitrary collect and accept calls.   *)

InitListener ==
    /\ \E addr \in BoundAddresses, port \in Ports, len \in 0..MaxBacklog :
         listener = ListenerNew(IpEndpointNew(addr, port), [i \in 0..(len - 1) |-> None])
    /\ lret = NoListenerCall
    /\ collected = <<>>
    /\ accepted = <<>>
    /\ buffer = SocketBufferNew(<<>>)
    /\ bret = NoCall
    /\ written = <<>>
    /\ readout = <<>>
    /\ test_pc = 0

\* The caller hands collect one datagram at a time: the addresses and the
\* payload are borrowed for the call and released before the next datagram.
CollectCall ==
    /\ lret.args = None
    /\ \E src_addr \in SrcAddresses, dst_addr \in DstAddresses,
          protocol \in Protocols, payload \in Payloads :
         /\ CollectResult(listener, src_addr, dst_addr, protocol, payload) = "Ok"
               => Len(collected) < MaxCollected
         /\ Collect(src_addr, dst_addr, protocol, payload)
    /\ UNCHANGED bufvars

AcceptCall ==
    /\ Accept
    /\ UNCHANGED bufvars

Release ==
    /\ lret.args # None
    /\ lret' = [lret EXCEPT !.args = None]
    /\ UNCHANGED <<listener, collected, accepted, bufvars>>

NextListener == CollectCall \/ AcceptCall \/ Release

SpecListener == InitListener /\ [][NextListener]_vars

----------------------------------------------------------------------------
(* Specification of test_buffer: the calls of the test in their order, on  *)
(* a storage of TestCap zeros, the caller writing arbitrary octets.  Each  *)
(* step names the call, the requested size, and the length of the literal  *)
(* the test copies into or compares with the returned slice.               *)

TestCap == 8

TestScript ==
    << <<"enqueue", 6, 6>>,    \* buffer.enqueue(6).copy_from_slice(b"foobar")
       <<"dequeue", 3, 3>>,    \* assert_eq!(buffer.dequeue(3), b"foo")
       <<"enqueue", 6, 2>>,    \* buffer.enqueue(6).copy_from_slice(b"ba")
       <<"enqueue", 4, 3>>,    \* buffer.enqueue(4).copy_from_slice(b"zho")
       <<"dequeue", 6, 5>>,    \* assert_eq!(buffer.dequeue(6), b"barba")
       <<"dequeue", 8, 3>>,    \* assert_eq!(buffer.dequeue(8), b"zho")
       <<"enqueue", 8, 5>> >>  \* buffer.enqueue(8).copy_from_slice(b"gefug")

InitTest ==
    /\ buffer = SocketBufferNew([i \in 0..(TestCap - 1) |-> 0])
    /\ bret = NoCall
    /\ written = <<>>
    /\ readout = <<>>
    /\ test_pc = 0
    /\ listener = IdleListener
    /\ lret = NoListenerCall
    /\ collected = <<>>
    /\ accepted = <<>>

TestEnqueue ==
    /\ test_pc < Len(TestScript)
    /\ TestScript[test_pc + 1][1] = "enqueue"
    /\ \E data \in SeqsOfLen(Octets, EnqueueSize(buffer, TestScript[test_pc + 1][2])) :
         Enqueue(TestScript[test_pc + 1][2], data)
    /\ test_pc' = test_pc + 1
    /\ UNCHANGED lisvars

TestDequeue ==
    /\ test_pc < Len(TestScript)
    /\ TestScript[test_pc + 1][1] = "dequeue"
    /\ Dequeue(TestScript[test_pc + 1][2])
    /\ test_pc' = test_pc + 1
    /\ UNCHANGED lisvars

NextTest == TestEnqueue \/ TestDequeue

SpecTest == InitTest /\ [][NextTest]_vars

----------------------------------------------------------------------------
(* Properties of SocketBuffer                                              *)

Min(a, b) == IF a <= b THEN a ELSE b

IsPrefix(s, t) == Len(s) <= Len(t) /\ \A i \in 1..Len(s) : s[i] = t[i]

\* C1: after every enqueue and dequeue call on a storage of length
\* capacity >= 1, 0 <= length <= capacity and 0 <= read_at < capacity.
BufferBounds ==
    /\ 0 <= buffer.length
    /\ buffer.length <= StorageLen(buffer.storage)
    /\ 0 <= buffer.read_at
    /\ buffer.read_at < StorageLen(buffer.storage)

\* A full buffer whose oldest octet is not at the start of the storage,
\* just filled by enqueue.
BufferBoundsWitness ==
    /\ bret.op = "enqueue"
    /\ bret.size > 0
    /\ buffer.length = StorageLen(buffer.storage)
    /\ buffer.read_at > 0

\* C2: the octets returned by dequeue, in order, are a prefix of the octets
\* written through the slices returned by enqueue, and the octets held are
\* exactly the rest.
StreamConservation ==
    /\ IsPrefix(readout, written)
    /\ written = readout \o Held(buffer)

\* Octets have been read out past a wrap of the storage while the octets
\* still held straddle the end of the storage.
StreamConservationWitness ==
    /\ Len(readout) > StorageLen(buffer.storage)
    /\ buffer.length >= 2
    /\ buffer.read_at + buffer.length > StorageLen(buffer.storage)
    /\ \E i, j \in 1..Len(readout) : readout[i] # readout[j]

\* C3: enqueue(requested) returns a slice of length
\* min(requested, capacity - length, capacity - write_at) starting at
\* write_at = (read_at + length) mod capacity, adds that length to length,
\* and leaves read_at alone.
EnqueueContract ==
    [][bret'.op = "enqueue" =>
        LET capacity == StorageLen(buffer.storage)
            write_at == (buffer.read_at + buffer.length) % capacity
        IN  /\ bret'.at = write_at
            /\ bret'.size = Min(bret'.requested,
                                Min(capacity - buffer.length, capacity - write_at))
            /\ Len(bret'.slice) = bret'.size
            /\ buffer'.length = buffer.length + bret'.size
            /\ buffer'.read_at = buffer.read_at
            /\ StorageLen(buffer'.storage) = capacity]_vars

\* enqueue returned less than requested although free space remains: the
\* slice was cut at the end of the storage.
EnqueueContractWitness ==
    /\ bret.op = "enqueue"
    /\ 0 < bret.size
    /\ bret.size < bret.requested
    /\ bret.at + bret.size = StorageLen(buffer.storage)
    /\ buffer.length < StorageLen(buffer.storage)

\* C4: dequeue(requested) returns a slice of length
\* min(requested, length, capacity - read_at) starting at read_at, moves
\* read_at on by that length mod capacity and takes it off length; on an
\* empty buffer it returns an empty slice and changes nothing.
DequeueContract ==
    [][bret'.op = "dequeue" =>
        LET capacity == StorageLen(buffer.storage)
        IN  /\ bret'.at = buffer.read_at
            /\ bret'.size = Min(bret'.requested,
                                Min(buffer.length, capacity - buffer.read_at))
            /\ bret'.slice = Slice(buffer.storage, buffer.read_at, bret'.size)
            /\ buffer'.read_at = (buffer.read_at + bret'.size) % capacity
            /\ buffer'.length = buffer.length - bret'.size
            /\ buffer'.storage = buffer.storage
            /\ (buffer.length = 0 => bret'.size = 0 /\ buffer' = buffer)]_vars

\* dequeue returned less than requested although octets remain queued: the
\* slice was cut at the end of the storage and read_at wrapped to zero.
DequeueContractWitness ==
    /\ bret.op = "dequeue"
    /\ 0 < bret.size
    /\ bret.size < bret.requested
    /\ buffer.length > 0
    /\ buffer.read_at = 0

\* C5, as the specification states it: after the calls of the wraparound
\* example, which leave the buffer empty, enqueue(8) returns a slice of all
\* 8 octets.
WraparoundEnqueueFull ==
    test_pc = Len(TestScript) => bret.size = 8

\* C5, amended: after the calls of the wraparound example the buffer is
\* empty with read_at = 3, and enqueue(8) returns the 5 octets from index 3
\* to the end of the storage, as the test's 5-octet literal requires.
WraparoundEnqueueToEnd ==
    /\ test_pc = Len(TestScript) - 1 => buffer.length = 0 /\ buffer.read_at = 3
    /\ test_pc = Len(TestScript) =>
         /\ bret.op = "enqueue" /\ bret.requested = 8
         /\ bret.at = 3
         /\ bret.size = 5
         /\ buffer.length = 5
    /\ test_pc > 0 => bret.size = TestScript[test_pc][3]

WraparoundWitness ==
    /\ test_pc = Len(TestScript)
    /\ bret.op = "enqueue"
    /\ bret.requested = TestCap

----------------------------------------------------------------------------
(* Properties of Listener                                                  *)

\* A step that is a call of collect, and the arguments of that call.
IsCollectStep == lret.args = None /\ lret'.args # None
CollectArgs == lret'.args[1]

\* The datagram is a TCP segment that decodes.
IsSegment(args) == args.protocol = "Tcp" /\ args.payload.wellformed
SegmentOf(args) == args.payload.fields[1]

\* The datagram is a bare SYN for the endpoint the listener is bound to.
IsMatchingBareSyn(l, args) ==
    /\ IsSegment(args)
    /\ SegmentOf(args).dst_port = l.endpoint.port
    /\ (l.endpoint.addr = Unspecified \/ l.endpoint.addr = args.dst_addr)
    /\ SegmentOf(args).control = "Syn"
    /\ SegmentOf(args).ack_number = None

\* The slots from accept_at on, length of them, wrapping at the end of the
\* backlog.
PendingSlots(l) ==
    {(l.accept_at + i) % BacklogLen(l.backlog) : i \in 0..(l.length - 1)}

\* C6: the records returned by non-empty accept calls are a prefix of the
\* records stored by the collect calls that returned Ok, in the same order.
AcceptFifo ==
    /\ IsPrefix(accepted, collected)
    /\ lret.op = "accept" /\ lret.result = "Some" =>
         /\ Len(accepted) >= 1
         /\ lret.value = Some(accepted[Len(accepted)])

\* Two different records have been accepted, the second from a slot the
\* backlog wrapped around to, while a third is pending.
AcceptFifoWitness ==
    /\ lret.op = "accept"
    /\ Len(accepted) = 2
    /\ accepted[1] # accepted[2]
    /\ Len(collected) = 3
    /\ collected[3] # collected[1]
    /\ BacklogLen(listener.backlog) = 2
    /\ listener.length = 1

\* C7: with as many entries pending as the backlog is long, a matching bare
\* SYN gets Exhausted and is not stored; right after an accept call that
\* removed an entry, a matching bare SYN gets Ok and is stored.
BacklogBoundary ==
    [][IsCollectStep /\ IsMatchingBareSyn(listener, CollectArgs) =>
        /\ listener.length = BacklogLen(listener.backlog) =>
             /\ lret'.result = "Exhausted"
             /\ listener' = listener
             /\ collected' = collected
        /\ lret.op = "accept" /\ lret.result = "Some" =>
             /\ lret'.result = "Ok"
             /\ listener'.length = listener.length + 1
             /\ Len(collected') = Len(collected) + 1]_vars

\* A bare SYN was stored by the call right after an accept call, and fills
\* the backlog again: the accept had freed a slot of a full backlog.
BacklogBoundaryWitness ==
    /\ lret.op = "collect"
    /\ lret.result = "Ok"
    /\ lret.after_take
    /\ listener.length = BacklogLen(listener.backlog)
    /\ listener.accept_at > 0

\* C8: exactly the length slots from accept_at on, modulo the length of the
\* backlog, hold a record; every other slot is None; length never exceeds
\* the length of the backlog.
BacklogRun ==
    /\ listener.length <= BacklogLen(listener.backlog)
    /\ \A i \in DOMAIN listener.backlog :
         (listener.backlog[i] # None) <=> (i \in PendingSlots(listener))

\* A run of pending slots that wraps around the end of the backlog.
BacklogRunWitness ==
    /\ listener.length >= 2
    /\ listener.accept_at + listener.length > BacklogLen(listener.backlog)
    /\ listener.backlog[0] # None

\* C9: a segment for another port is Rejected whatever address the listener
\* is bound to; a segment for another address is Rejected by a listener
\* bound to a specific address; a listener bound to the unspecified address
\* never rejects for the destination address.
EndpointFiltering ==
    [][IsCollectStep /\ IsSegment(CollectArgs) =>
        LET args == CollectArgs
            seg  == SegmentOf(CollectArgs)
        IN  /\ seg.dst_port # listener.endpoint.port => lret'.result = "Rejected"
            /\ (listener.endpoint.addr # Unspecified
                   /\ args.dst_addr # listener.endpoint.addr)
                 => lret'.result = "Rejected"
            /\ (listener.endpoint.addr = Unspecified
                   /\ seg.dst_port = listener.endpoint.port
                   /\ seg.control = "Syn" /\ seg.ack_number = None)
                 => lret'.result # "Rejected"]_vars

\* A listener bound to the unspecified address stored a bare SYN sent to a
\* specific address.
EndpointFilteringWitness ==
    /\ lret.op = "collect"
    /\ lret.args # None
    /\ lret.result = "Ok"
    /\ listener.endpoint.addr = Unspecified
    /\ lret.args[1].dst_addr # Unspecified

\* C10: collect stores a record only for a TCP segment that is a SYN with no
\* acknowledgment number; a SYN with an acknowledgment number, a segment
\* with another control and a datagram of another protocol are Rejected and
\* store nothing.
HandshakeFiltering ==
    [][IsCollectStep =>
        LET args == CollectArgs
            bare == /\ IsSegment(args)
                    /\ SegmentOf(args).control = "Syn"
                    /\ SegmentOf(args).ack_number = None
        IN  /\ (lret'.result = "Ok" \/ listener' # listener \/ collected' # collected)
                 => bare
            /\ (args.protocol # "Tcp"
                  \/ (IsSegment(args) /\ ~bare))
                 => /\ lret'.result = "Rejected"
                    /\ listener' = listener
                    /\ collected' = collected]_vars

\* A SYN with an acknowledgment number, for the bound endpoint and with room
\* in the backlog, was Rejected.
HandshakeFilteringWitness ==
    /\ lret.op = "collect"
    /\ lret.args # None
    /\ lret.result = "Rejected"
    /\ IsSegment(lret.args[1])
    /\ SegmentOf(lret.args[1]).control = "Syn"
    /\ SegmentOf(lret.args[1]).ack_number # None
    /\ SegmentOf(lret.args[1]).dst_port = listener.endpoint.port
    /\ lret.args[1].dst_addr = listener.endpoint.addr
    /\ listener.length < BacklogLen(listener.backlog)

\* C11: what collect returns is decided by the first check that fails, in
\* the order protocol (Rejected), decoding (the decoder's error), port
\* (Rejected), bound address (Rejected), bare SYN (Rejected), room in the
\* backlog (Exhausted); so Exhausted is returned only to a bare SYN for the
\* bound endpoint, and any other segment at a full backlog is Rejected.
CollectCheckOrder ==
    [][IsCollectStep =>
        LET args == CollectArgs
            full == listener.length = BacklogLen(listener.backlog)
        IN  /\ args.protocol # "Tcp" => lret'.result = "Rejected"
            /\ (args.protocol = "Tcp" /\ ~args.payload.wellformed)
                 => lret'.result = "Malformed"
            /\ (IsSegment(args)
                  /\ SegmentOf(args).dst_port # listener.endpoint.port)
                 => lret'.result = "Rejected"
            /\ (IsSegment(args)
                  /\ SegmentOf(args).dst_port = listener.endpoint.port
                  /\ listener.endpoint.addr # Unspecified
                  /\ listener.endpoint.addr # args.dst_addr)
                 => lret'.result = "Rejected"
            /\ (IsSegment(args) /\ ~IsMatchingBareSyn(listener, args))
                 => lret'.result = "Rejected"
            /\ (IsMatchingBareSyn(listener, args) /\ full)
                 => lret'.result = "Exhausted"
            /\ lret'.result = "Exhausted"
                 => IsMatchingBareSyn(listener, args) /\ full
            /\ (IsMatchingBareSyn(listener, args) /\ ~full)
                 => lret'.result = "Ok"]_vars

\* A segment for the bound endpoint that is not a SYN arrived at a full
\* backlog and was Rejected.
CollectCheckOrderWitness ==
    /\ lret.op = "collect"
    /\ lret.args # None
    /\ lret.result = "Rejected"
    /\ listener.length = BacklogLen(listener.backlog)
    /\ IsSegment(lret.args[1])
    /\ SegmentOf(lret.args[1]).control # "Syn"
    /\ SegmentOf(lret.args[1]).dst_port = listener.endpoint.port
    /\ lret.args[1].dst_addr = listener.endpoint.addr

\* C12: a collect call that returns Ok stores, at slot
\* (accept_at + length) mod capacity, a record with local endpoint
\* (destination address, dst_port), remote endpoint (source address,
\* src_port) and the segment's sequence number; it adds one to length and
\* leaves accept_at and every other slot alone.  A listener bound to the
\* unspecified address records the datagram's destination address.
CollectStores ==
    [][IsCollectStep /\ lret'.result = "Ok" =>
        LET args     == CollectArgs
            seg      == SegmentOf(CollectArgs)
            capacity == BacklogLen(listener.backlog)
            slot     == (listener.accept_at + listener.length) % capacity
            stored   == listener'.backlog[slot][1]
        IN  /\ listener'.backlog[slot] # None
            /\ stored.local_end.addr = args.dst_addr
            /\ stored.local_end.port = seg.dst_port
            /\ stored.remote_end.addr = args.src_addr
            /\ stored.remote_end.port = seg.src_port
            /\ stored.seq_number = seg.seq_number
            /\ listener'.length = listener.length + 1
            /\ listener'.accept_at = listener.accept_at
            /\ listener'.endpoint = listener.endpoint
            /\ BacklogLen(listener'.backlog) = capacity
            /\ \A i \in DOMAIN listener.backlog :
                 i # slot => listener'.backlog[i] = listener.backlog[i]
            /\ collected' = Append(collected, stored)]_vars

\* A listener bound to the unspecified address stored a record in slot 0
\* after the backlog wrapped around, behind a record still pending in the
\* last slot; the record carries the datagram's destination address.
CollectStoresWitness ==
    /\ lret.op = "collect"
    /\ lret.args # None
    /\ lret.result = "Ok"
    /\ listener.endpoint.addr = Unspecified
    /\ listener.accept_at > 0
    /\ listener.length >= 2
    /\ listener.backlog[0] # None
    /\ listener.backlog[0][1].local_end.addr = lret.args[1].dst_addr
    /\ listener.backlog[0][1] = collected[Len(collected)]

\* C13: accept on a Listener with length 0 returns None and leaves
\* accept_at, length and every slot as they were, however often it is
\* called.
AcceptOnEmpty ==
    [][lret'.op = "accept" /\ listener.length = 0 =>
        /\ lret'.result = "None"
        /\ lret'.value = None
        /\ listener' = listener
        /\ accepted' = accepted
        /\ collected' = collected]_vars

\* accept returned None on a backlog that had been filled and drained, its
\* accept_at away from the first slot.
AcceptOnEmptyWitness ==
    /\ lret.op = "accept"
    /\ lret.result = "None"
    /\ ~lret.after_take
    /\ listener.length = 0
    /\ listener.accept_at > 0
    /\ Len(accepted) >= 1

\* C14: for every storage length and in every reachable state, enqueue and
\* dequeue complete without a panic and return a slice no longer than
\* requested; over a storage of length zero both return an empty slice.
NoFaultAnyStorage ==
    /\ bret.op # "panic"
    /\ bret.op \in {"enqueue", "dequeue"} =>
         /\ bret.size <= bret.requested
         /\ StorageLen(buffer.storage) = 0 => bret.size = 0

\* C15: the assertion of collect that the slot it is about to fill is empty
\* never fails, for a backlog of any length that starts with every slot
\* None: no call panics, and whenever the backlog has room the slot at
\* (accept_at + length) mod capacity is None.
AssertionHolds ==
    /\ lret.result # "Panic"
    /\ listener.length < BacklogLen(listener.backlog) =>
         listener.backlog[(listener.accept_at + listener.length)
                             % BacklogLen(listener.backlog)] = None

\* collect passed the assertion on a slot that had held a record before:
\* more records have been stored than the backlog has slots.
AssertionHoldsWitness ==
    /\ lret.op = "collect"
    /\ lret.result = "Ok"
    /\ BacklogLen(listener.backlog) >= 2
    /\ Len(collected) > BacklogLen(listener.backlog)

\* The slots whose content a step changes.
ChangedSlots ==
    {i \in DOMAIN listener.backlog : listener'.backlog[i] # listener.backlog[i]}

\* C16: a slot changes only from None to a record, in a collect call that
\* returns Ok, and from a record to None, in an accept call that returns
\* that record; collect never overwrites a record, and no call changes more
\* than one slot.
SlotTransitions ==
    [][/\ DOMAIN listener'.backlog = DOMAIN listener.backlog
       /\ Cardinality(ChangedSlots) <= 1
       /\ \A i \in ChangedSlots :
            \/ /\ listener.backlog[i] = None
               /\ listener'.backlog[i] # None
               /\ IsCollectStep
               /\ lret'.result = "Ok"
            \/ /\ listener.backlog[i] # None
               /\ listener'.backlog[i] = None
               /\ lret'.op = "accept"
               /\ lret'.result = "Some"
               /\ lret'.value = listener.backlog[i]
       /\ (IsCollectStep /\ lret'.result = "Ok") => Cardinality(ChangedSlots) = 1
       /\ (lret'.op = "accept" /\ lret'.result = "Some") => Cardinality(ChangedSlots) = 1
      ]_vars

\* A slot has gone from None to a record, back to None, and on to another
\* record, while the other slot kept its record.
SlotTransitionsWitness ==
    /\ lret.op = "collect"
    /\ lret.result = "Ok"
    /\ BacklogLen(listener.backlog) = 2
    /\ listener.length = 2
    /\ listener.accept_at = 1
    /\ Len(accepted) = 1
    /\ listener.backlog[0] # Some(accepted[1])

\* C17: collect does not deduplicate: with room in the backlog, a bare SYN
\* for the bound endpoint whose source address, source port and sequence
\* number equal those of a pending record returns Ok and adds one more
\* record, so one remote endpoint can hold several slots.
NoDeduplication ==
    [][(/\ IsCollectStep
        /\ IsMatchingBareSyn(listener, CollectArgs)
        /\ listener.length < BacklogLen(listener.backlog)
        /\ \E i \in PendingSlots(listener) :
             /\ listener.backlog[i] # None
             /\ listener.backlog[i][1].remote_end.addr = CollectArgs.src_addr
             /\ listener.backlog[i][1].remote_end.port = SegmentOf(CollectArgs).src_port
             /\ listener.backlog[i][1].seq_number = SegmentOf(CollectArgs).seq_number)
       => /\ lret'.result = "Ok"
          /\ listener'.length = listener.length + 1
          /\ \E i, j \in PendingSlots(listener') :
               /\ i # j
               /\ listener'.backlog[i] # None
               /\ listener'.backlog[j] # None
               /\ listener'.backlog[i][1].remote_end = listener'.backlog[j][1].remote_end
               /\ listener'.backlog[i][1].seq_number = listener'.backlog[j][1].seq_number
      ]_vars

\* Every slot of a backlog of two or more holds the same record: the same
\* SYN, from the same remote endpoint, was stored again and again up to the
\* capacity.
NoDeduplicationWitness ==
    /\ lret.op = "collect"
    /\ lret.result = "Ok"
    /\ BacklogLen(listener.backlog) >= 2
    /\ listener.length = BacklogLen(listener.backlog)
    /\ \A i \in DOMAIN listener.backlog : listener.backlog[i] = listener.backlog[0]

\* C18: a collect call that returns an error (Rejected, Exhausted or the
\* decoder's error) leaves accept_at, length and every slot as they were.
CollectErrorFrame ==
    [][(IsCollectStep /\ lret'.result \in {"Rejected", "Exhausted", "Malformed"})
        => /\ listener' = listener
           /\ collected' = collected
           /\ accepted' = accepted]_vars

\* collect returned Exhausted to a full backlog of two or more slots whose
\* oldest record is not in the first slot.
CollectErrorFrameWitness ==
    /\ lret.op = "collect"
    /\ lret.args # None
    /\ lret.result = "Exhausted"
    /\ BacklogLen(listener.backlog) >= 2
    /\ listener.length = BacklogLen(listener.backlog)
    /\ listener.accept_at > 0

\* C19: on a storage of length >= 1, a write of n octets that fit the free
\* space is completed by at most two consecutive enqueue calls, the second
\* asking for what the first left, and a read of n queued octets by at most
\* two consecutive dequeue calls; enqueue(n >= 1) on a buffer that is not
\* full and dequeue(n >= 1) on a buffer that is not empty never return an
\* empty slice.
TwoCallsSuffice ==
    [][LET capacity == StorageLen(buffer.storage)
       IN  /\ bret'.op = "enqueue" =>
                /\ (bret'.requested >= 1 /\ buffer.length < capacity)
                     => bret'.size >= 1
                /\ bret'.requested <= capacity - buffer.length
                     => bret'.size = bret'.requested
                          \/ bret'.at + bret'.size = capacity
                /\ (bret'.resumes
                      /\ bret.requested <= capacity - (buffer.length - bret.size))
                     => bret'.size = bret'.requested
           /\ bret'.op = "dequeue" =>
                /\ (bret'.requested >= 1 /\ buffer.length > 0)
                     => bret'.size >= 1
                /\ bret'.requested <= buffer.length
                     => bret'.size = bret'.requested
                          \/ bret'.at + bret'.size = capacity
                /\ (bret'.resumes
                      /\ bret.requested <= buffer.length + bret.size)
                     => bret'.size = bret'.requested]_vars

\* A second enqueue call, asking for the rest of a write that the first
\* call had cut at the end of the storage, returned all of it from the
\* start of the storage.
TwoCallsSufficeWitness ==
    /\ bret.op = "enqueue"
    /\ bret.resumes
    /\ bret.at = 0
    /\ bret.size >= 1
    /\ bret.size = bret.requested
    /\ buffer.read_at > bret.size

\* The positions of the storage that hold octets not yet dequeued.
UnreadPositions(buf) ==
    {(buf.read_at + i) % StorageLen(buf.storage) : i \in 0..(buf.length - 1)}

\* C20: the range [write_at, write_at + size) returned by enqueue lies
\* inside the storage and holds no octet that was unread before the call;
\* the range returned by dequeue lies inside the storage and covers only
\* positions that held unread octets.
RangesRespectUnread ==
    [][LET capacity == StorageLen(buffer.storage)
           range    == bret'.at .. (bret'.at + bret'.size - 1)
       IN  /\ bret'.op = "enqueue" =>
                /\ 0 <= bret'.at
                /\ 0 <= bret'.size
                /\ bret'.at + bret'.size <= capacity
                /\ range \cap UnreadPositions(buffer) = {}
                /\ \A i \in UnreadPositions(buffer) :
                     buffer'.storage[i] = buffer.storage[i]
           /\ bret'.op = "dequeue" =>
                /\ 0 <= bret'.at
                /\ 0 <= bret'.size
                /\ bret'.at + bret'.size <= capacity
                /\ range \subseteq UnreadPositions(buffer)]_vars

\* enqueue filled the free positions in front of unread octets that sit at
\* the end of the storage, up to the oldest of them.
RangesRespectUnreadWitness ==
    /\ bret.op = "enqueue"
    /\ bret.size >= 1
    /\ bret.at = 0
    /\ bret.at + bret.size = buffer.read_at
    /\ buffer.length = StorageLen(buffer.storage)
    /\ bret.size < bret.requested

====
